---- MODULE Spec2Model ----
(***************************************************************************)
(* Model of splunk_app_deployer.py: the per-unit deployment pipeline       *)
(* (validate, backup, stamp version, replace, verify), the session loop    *)
(* of DeploymentManager.run, and the pure text functions it relies on      *)
(* (version pattern, label rewrite, descriptor read and write).            *)
(*                                                                         *)
(* Text is a sequence of one-character strings, so that the regular        *)
(* expressions and the strip calls of the source can be computed.          *)
(***************************************************************************)
EXTENDS Integers, Sequences, FiniteSets, TLC

VARIABLES
    src,            \* source root: unit name -> tree
    tgt,            \* target root (splunk_apps_dir): unit name -> tree
    backups,        \* backup directory: set of archive files
    now,            \* wall clock, in seconds
    pc,             \* position of run(): "select", "loop", "done", or a function-spec phase
    plan,           \* selected_apps
    idx,            \* position of the for loop of run() in plan (1-based)
    stage,          \* stage of the unit at plan[idx]
    new_version,    \* version resolved for the unit at plan[idx]
    deployed_apps,  \* run(): deployed_apps
    app_versions,   \* run(): app_versions
    exit_status,    \* process exit status once pc = "done" (-1 before)
    last_error,     \* path named by the last logger.error of a validator
    pre,            \* history: target tree and source descriptor when the unit's pipeline started
    made,           \* history: archives written by the current unit's pipeline
    trail,          \* history: the stages the current unit has been in, in order
    rets,           \* history: the values the steps of the current unit returned, in order
    hist,           \* history: per finished plan position, the outcome of that unit
    fin,            \* function specs: the input under test
    fout            \* function specs: the results computed so far

vars == <<src, tgt, backups, now, pc, plan, idx, stage, new_version,
          deployed_apps, app_versions, exit_status, last_error, pre, made,
          trail, rets, hist, fin, fout>>

pvars == <<src, tgt, backups, now, plan, idx, stage, new_version,
           deployed_apps, app_versions, exit_status, last_error, pre, made,
           trail, rets, hist>>

(***************************************************************************)
(* Bounds                                                                  *)
(***************************************************************************)
MaxVerLen == 6      \* longest version string enumerated
MaxLabelLen == 4    \* longest label enumerated
MaxSel == 2         \* most tokens in a selection line
MaxTime == 2        \* last clock value
SecondsPerMinute == 2   \* clock ticks per build-stamp minute (scaled down)

(***************************************************************************)
(* Text helpers                                                            *)
(***************************************************************************)
Min(S) == CHOOSE x \in S : \A y \in S : x <= y

Max(S) == CHOOSE x \in S : \A y \in S : x >= y

\* the only element of a one-element set; binding a value this way makes
\* the checker compute it once
The(S) == CHOOSE x \in S : TRUE

\* str.strip() and the \s class of re
WhiteSpace == {" ", "\t", "\n"}

\* the \d class of re
Digits == {"0", "1", "2", "3", "4", "5", "6", "7", "8", "9"}

AllIn(s, lo, hi, S) == \A k \in lo..hi : s[k] \in S

NoneIn(s, lo, hi, S) == \A k \in lo..hi : s[k] \notin S

\* s.strip(chars): drop the leading and trailing run of characters of W
StripChars(s, W) ==
    LET n == Len(s)
        a == Min({i \in 1..(n + 1) : i = n + 1 \/ s[i] \notin W})
        b == Max({j \in 0..n : j = 0 \/ s[j] \notin W})
    IN  IF a > b THEN <<>> ELSE SubSeq(s, a, b)

\* s.strip()
Strip(s) == StripChars(s, WhiteSpace)

\* the position where a pattern's final $ matches: the end of the text, or
\* just before a newline that ends the text
DollarEnd(s) ==
    IF Len(s) > 0 /\ s[Len(s)] = "\n" THEN {Len(s) - 1, Len(s)} ELSE {Len(s)}

\* \d+\.\d+\.\d+ matches exactly s[lo..hi]
IsTripleAt(s, lo, hi) ==
    \E p \in (lo + 1)..(hi - 3) : \E q \in (p + 2)..(hi - 1) :
        /\ s[p] = "." /\ s[q] = "."
        /\ AllIn(s, lo, p - 1, Digits)
        /\ AllIn(s, p + 1, q - 1, Digits)
        /\ AllIn(s, q + 1, hi, Digits)

\* re.match(r'^\d+\.\d+\.\d+$', s)
MatchesVersionPattern(s) == \E e \in DollarEnd(s) : IsTripleAt(s, 1, e)

\* the text sets the function specifications enumerate
SeqsUpTo(A, n) == UNION {[1..k -> A] : k \in 0..n}

VersionChars == {"1", ".", " ", "\""}

LabelChars == {"F", " ", "v", "1", ".", "(", ")"}

V100 == <<"1", ".", "0", ".", "0">>

V200 == <<"2", ".", "0", ".", "0">>

V111 == <<"1", ".", "1", ".", "1">>

V10 == <<"1", ".", "0">>

(***************************************************************************)
(* DeploymentManager.prompt_for_version: the text typed at the prompt is   *)
(* stripped; an empty answer or one that does not match the pattern keeps  *)
(* the current version.                                                    *)
(***************************************************************************)
prompt_for_version_nostrip(typed, current_version) ==
    IF typed = <<>> THEN current_version
    ELSE IF MatchesVersionPattern(typed) THEN typed
    ELSE current_version

prompt_for_version(typed, current_version) ==
    The({IF nv = <<>> THEN current_version
         ELSE IF MatchesVersionPattern(nv) THEN nv
         ELSE current_version : nv \in {Strip(typed)}})

(***************************************************************************)
(* The label rewrite of SplunkAppManager.update_app_version                *)
(***************************************************************************)
\* a match of \s+v\d+\.\d+\.\d+.*$ starts at i and ends at e
VersionSuffixAt(s, i, e) ==
    \E j \in (i + 1)..e : \E r \in (j + 5)..e :
        /\ AllIn(s, i, j - 1, WhiteSpace)
        /\ s[j] = "v"
        /\ IsTripleAt(s, j + 1, r)
        /\ NoneIn(s, r + 1, e, {"\n"})

\* the match re.sub replaces, among the matches M given as <<start, end>>:
\* the leftmost one, taken as long as it can be
FirstMatch(M) ==
    The({m \in M : \A x \in M : m[1] < x[1] \/ (m[1] = x[1] /\ m[2] >= x[2])})

\* s without the part from m[1] to m[2]
Cut(s, m) == SubSeq(s, 1, m[1] - 1) \o SubSeq(s, m[2] + 1, Len(s))

\* re.sub(r'\s+v\d+\.\d+\.\d+.*$', '', s)
StripVersionSuffix(s) ==
    The({IF M = {} THEN s ELSE Cut(s, FirstMatch(M)) :
           M \in {{m \in (1..Len(s)) \X DollarEnd(s) :
                     VersionSuffixAt(s, m[1], m[2])}}})

\* a match of \s*\([^)]*\)$ starts at i and ends at e
ParenSuffixAt(s, i, e) ==
    \E j \in i..(e - 1) :
        /\ AllIn(s, i, j - 1, WhiteSpace)
        /\ s[j] = "("
        /\ NoneIn(s, j + 1, e - 1, {")"})
        /\ s[e] = ")"

\* re.sub(r'\s*\([^)]*\)$', '', s)
StripParenSuffix(s) ==
    The({IF M = {} THEN s ELSE Cut(s, FirstMatch(M)) :
           M \in {{m \in (1..Len(s)) \X DollarEnd(s) :
                     ParenSuffixAt(s, m[1], m[2])}}})

\* base_label of update_app_version: the two re.sub calls, then strip();
\* each result is computed once and handed to the next call
base_label(current_label) ==
    The({Strip(b) : b \in {StripParenSuffix(a) :
                             a \in {StripVersionSuffix(c) : c \in {current_label}}}})

\* f"{base_label} v{version}" of update_app_version
rewrite_label(current_label, version) ==
    base_label(current_label) \o <<" ", "v">> \o version

(***************************************************************************)
(* The descriptor default/app.conf.  A parsed configuration maps section   *)
(* names to maps from keys to text; the file holds the raw text of every   *)
(* value, and reading it strips the white space around each value.         *)
(***************************************************************************)
EmptyMap == [k \in {} |-> <<>>]

NoFile == [state |-> "none", data |-> EmptyMap]

has_section(config, section) == section \in DOMAIN config

has_option(config, section, option) ==
    section \in DOMAIN config /\ option \in DOMAIN config[section]

add_section(config, section) ==
    [s \in DOMAIN config \cup {section} |->
        IF s = section THEN EmptyMap ELSE config[s]]

set_option(config, section, option, value) ==
    [config EXCEPT ![section] =
        [k \in DOMAIN config[section] \cup {option} |->
            IF k = option THEN value ELSE config[section][k]]]

\* ConfigParser.optionxform: the option name in lower case, for the option
\* names the descriptors of this model hold
optionxform(option) == IF option = "Author" THEN "author" ELSE option

\* ConfigParser.read of a well-formed file (no section holds two options
\* with the same lower-case name): every option is kept under its
\* lower-case name, with the white space around its value dropped
config_read(file) ==
    [s \in DOMAIN file.data |->
        [k \in {optionxform(j) : j \in DOMAIN file.data[s]} |->
            Strip(file.data[s][CHOOSE j \in DOMAIN file.data[s] :
                                  optionxform(j) = k])]]

\* ConfigParser.write
config_write(config) == [state |-> "ok", data |-> config]

\* a write that failed after open(..., 'w') truncated the file: at most the
\* sections of kept reached the disk
truncated_write(config, kept) ==
    [state |-> "ok", data |-> [s \in DOMAIN config \cap kept |-> config[s]]]

DigitChar(n) == <<"0", "1", "2", "3", "4", "5", "6", "7", "8", "9">>[n + 1]

\* datetime.now().strftime('%Y%m%d%H%M')
build_stamp(t) == <<DigitChar(t \div SecondsPerMinute)>>

(***************************************************************************)
(* A unit's directory tree                                                 *)
(***************************************************************************)
APP_CONF == "default/app.conf"

DEFAULT_META == "metadata/default.meta"

NoTree == [exists |-> FALSE, dirs |-> {}, files |-> {}, conf |-> NoFile,
           payload |-> "none"]

\* the paths below the unit directory that exist
Paths(tree) == IF tree.exists THEN tree.dirs \cup tree.files ELSE {}

ParentOf(path) == IF path = APP_CONF THEN "default" ELSE "metadata"

\* the tree a removal or a copy of tree leaves behind when it stops early:
\* the default directory alone
PartsOf(tree) ==
    {[exists |-> TRUE, dirs |-> tree.dirs \cap {"default"},
      files |-> tree.files \cap {APP_CONF},
      conf |-> IF APP_CONF \in tree.files THEN tree.conf ELSE NoFile,
      payload |-> "partial"]}

(***************************************************************************)
(* SplunkAppManager                                                        *)
(***************************************************************************)
required_dirs == <<"default", "metadata">>

required_files == <<APP_CONF, DEFAULT_META>>

\* the first entry of the list that does not exist, "" if all exist
FirstAbsent(list, tree) ==
    LET absent == {i \in 1..Len(list) : list[i] \notin Paths(tree)}
    IN  IF absent = {} THEN "" ELSE list[Min(absent)]

validate_app_structure_files_first(tree) ==
    IF FirstAbsent(required_files, tree) # ""
    THEN [ok |-> FALSE, missing |-> FirstAbsent(required_files, tree)]
    ELSE IF FirstAbsent(required_dirs, tree) # ""
    THEN [ok |-> FALSE, missing |-> FirstAbsent(required_dirs, tree)]
    ELSE [ok |-> TRUE, missing |-> ""]

validate_app_structure(tree) ==
    IF FirstAbsent(required_dirs, tree) # ""
    THEN [ok |-> FALSE, missing |-> FirstAbsent(required_dirs, tree)]
    ELSE IF FirstAbsent(required_files, tree) # ""
    THEN [ok |-> FALSE, missing |-> FirstAbsent(required_files, tree)]
    ELSE [ok |-> TRUE, missing |-> ""]

\* config.get(section, 'version').strip('"')
version_of(config, section) ==
    The({StripChars(v, {"\""}) : v \in {config[section]["version"]}})

get_current_version_install_first(tree) ==
    IF APP_CONF \notin Paths(tree) THEN V100
    ELSE IF tree.conf.state # "ok" THEN V100
    ELSE The({IF has_option(config, "install", "version")
              THEN version_of(config, "install")
              ELSE IF has_option(config, "launcher", "version")
              THEN version_of(config, "launcher")
              ELSE V100 : config \in {config_read(tree.conf)}})

get_current_version(tree) ==
    IF APP_CONF \notin Paths(tree) THEN V100
    ELSE IF tree.conf.state # "ok" THEN V100
    ELSE The({IF has_option(config, "launcher", "version")
              THEN version_of(config, "launcher")
              ELSE IF has_option(config, "install", "version")
              THEN version_of(config, "install")
              ELSE V100 : config \in {config_read(tree.conf)}})

\* the configuration update_app_version builds before it writes
\* if not config.has_section(section): config.add_section(section)
ensure_section(config, section) ==
    IF has_section(config, section) THEN config ELSE add_section(config, section)

\* the label step of update_app_version
update_label(config, version) ==
    IF has_option(config, "launcher", "label")
    THEN set_option(config, "launcher", "label",
                    rewrite_label(config["launcher"]["label"], version))
    ELSE config

\* the version never set
updated_config_no_version(config, version, build_num) ==
    The({update_label(c4, version) :
          c4 \in {set_option(c3, "install", "build", build_num) :
           c3 \in {ensure_section(c2, "install") :
            c2 \in {ensure_section(c0, "launcher") : c0 \in {config}}}}})

updated_config(config, version, build_num) ==
    The({update_label(c4, version) :
          c4 \in {set_option(c3, "install", "build", build_num) :
           c3 \in {ensure_section(c2, "install") :
            c2 \in {set_option(c1, "launcher", "version", version) :
             c1 \in {ensure_section(c0, "launcher") : c0 \in {config}}}}}})

\* the results of the file system calls of update_app_version
WriteOutcomes ==
    {[kind |-> "ok", kept |-> {}], [kind |-> "open_fails", kept |-> {}]}
    \cup {[kind |-> "write_fails", kept |-> K] :
            K \in {{}, {"launcher"}}}

\* update_app_version: the value returned and the descriptor left on disk
update_app_version(tree, version, build_num, io) ==
    IF APP_CONF \notin Paths(tree) THEN [ok |-> FALSE, conf |-> tree.conf]
    ELSE IF tree.conf.state # "ok" THEN [ok |-> FALSE, conf |-> tree.conf]
    ELSE The({IF io.kind = "open_fails" THEN [ok |-> FALSE, conf |-> tree.conf]
              ELSE IF io.kind = "write_fails"
              THEN [ok |-> FALSE, conf |-> truncated_write(config, io.kept)]
              ELSE [ok |-> TRUE, conf |-> config_write(config)] :
                config \in {updated_config(c, version, build_num) :
                              c \in {config_read(tree.conf)}}})

(***************************************************************************)
(* DeploymentManager: backup, replace, post-deploy check, selection        *)
(***************************************************************************)
BackupOutcomes == {"ok", "open_fails", "write_fails"}

\* the archive file <app_name>_backup_<timestamp>.tar.gz
Archive(app_name, timestamp, tree, complete) ==
    [app |-> app_name, ts |-> timestamp, tree |-> tree, complete |-> complete]

\* tarfile.open(backup_path, 'w:gz') creates the file or truncates the one
\* that has the same name
WithArchive(dir, a) ==
    {b \in dir : ~(b.app = a.app /\ b.ts = a.ts)} \cup {a}

backup_existing_app_swallow(app_name, app_path, dir, timestamp, io) ==
    IF ~app_path.exists THEN [ok |-> TRUE, dir |-> dir, wrote |-> {}]
    ELSE IF io = "open_fails" THEN [ok |-> TRUE, dir |-> dir, wrote |-> {}]
    ELSE IF io = "write_fails"
    THEN [ok |-> TRUE,
          dir |-> WithArchive(dir, Archive(app_name, timestamp, app_path, FALSE)),
          wrote |-> {Archive(app_name, timestamp, app_path, FALSE)}]
    ELSE [ok |-> TRUE,
          dir |-> WithArchive(dir, Archive(app_name, timestamp, app_path, TRUE)),
          wrote |-> {Archive(app_name, timestamp, app_path, TRUE)}]

\* backup_existing_app: the value returned and the backup directory left
backup_existing_app(app_name, app_path, dir, timestamp, io) ==
    IF ~app_path.exists THEN [ok |-> TRUE, dir |-> dir, wrote |-> {}]
    ELSE IF io = "open_fails" THEN [ok |-> FALSE, dir |-> dir, wrote |-> {}]
    ELSE IF io = "write_fails"
    THEN [ok |-> FALSE,
          dir |-> WithArchive(dir, Archive(app_name, timestamp, app_path, FALSE)),
          wrote |-> {Archive(app_name, timestamp, app_path, FALSE)}]
    ELSE [ok |-> TRUE,
          dir |-> WithArchive(dir, Archive(app_name, timestamp, app_path, TRUE)),
          wrote |-> {Archive(app_name, timestamp, app_path, TRUE)}]

\* the try block of deploy_app: rmtree of the target, copytree of the source,
\* permissions; the value returned and the target tree left
ReplaceKinds == {"ok", "rmtree_fails", "copy_fails", "chmod_fails"}

replace_app(source_dir, target_dir, io) ==
    IF target_dir.exists /\ io.kind = "rmtree_fails"
    THEN [ok |-> FALSE, tree |-> io.left]
    ELSE IF io.kind = "copy_fails" THEN [ok |-> FALSE, tree |-> io.left]
    ELSE [ok |-> TRUE, tree |-> source_dir]

\* what an interrupted rmtree or copytree can leave at the target
ReplaceLeft(source_dir, target_dir, kind) ==
    IF kind = "rmtree_fails" THEN PartsOf(target_dir)
    ELSE IF kind = "copy_fails" THEN PartsOf(source_dir)
    ELSE {NoTree}

\* the loop over key_files left after its first file
validate_deployment_first_file_only(target_dir) ==
    /\ target_dir.exists
    /\ APP_CONF \in Paths(target_dir)

validate_deployment(target_dir) ==
    /\ target_dir.exists
    /\ APP_CONF \in Paths(target_dir)
    /\ DEFAULT_META \in Paths(target_dir)

\* the stages of a unit's pipeline
Stages == <<"PENDING", "VALIDATED", "BACKED_UP", "METADATA_UPDATED",
            "REPLACED", "VERIFIED">>

StageIndex(st) == CHOOSE i \in 1..Len(Stages) : Stages[i] = st

\* deploy_app and run: a step that succeeded moves the unit to the next
\* stage, a step that returned False ends the unit
advance_ignoring_failure(st, ok) == Stages[StageIndex(st) + 1]

advance_past_backup_failure(st, ok) ==
    IF ok \/ st = "VALIDATED" THEN Stages[StageIndex(st) + 1] ELSE "FAILED"

advance(st, ok) == IF ok THEN Stages[StageIndex(st) + 1] ELSE "FAILED"

Apps == {"appA", "appB"}

\* the units in the order sorted() gives them
AppOrder == <<"appA", "appB">>

list_available_apps(root) ==
    SelectSeq(AppOrder, LAMBDA a : root[a].exists /\ APP_CONF \in Paths(root[a]))

\* the words of a selection line
Tokens == {"all", "1", "2", "3"}

IntOf == [t \in {"1", "2", "3"} |-> IF t = "1" THEN 1 ELSE IF t = "2" THEN 2 ELSE 3]

\* select_apps_interactive: the list returned for the words typed; a word
\* that is not a number in range is skipped
select_apps_interactive(available_apps, selection) ==
    IF selection = <<"all">> THEN available_apps
    ELSE LET valid == SelectSeq(selection,
                        LAMBDA t : t \in DOMAIN IntOf /\ IntOf[t] >= 1
                                   /\ IntOf[t] <= Len(available_apps))
         IN  [i \in 1..Len(valid) |-> available_apps[IntOf[valid[i]]]]

(***************************************************************************)
(* The states a session starts from                                        *)
(***************************************************************************)
FullTree(conf, payload) ==
    [exists |-> TRUE, dirs |-> {"default", "metadata"},
     files |-> {APP_CONF, DEFAULT_META}, conf |-> conf, payload |-> payload]

ConfLauncher ==
    [state |-> "ok",
     data |-> [launcher |-> [version |-> V100,
                             label |-> <<"F", " ", "(", ")", " ", "(", ")">>],
               ui |-> [is_visible |-> <<"1">>]]]

ConfInstall ==
    [state |-> "ok",
     data |-> [install |-> [version |-> <<"\"", "1", ".", "0", "\"">>]]]

ConfCorrupt == [state |-> "corrupt", data |-> EmptyMap]

ConfOld ==
    [state |-> "ok", data |-> [launcher |-> [version |-> <<"0", ".", "9", ".", "0">>]]]

SourceTrees ==
    {FullTree(ConfLauncher, "new"), FullTree(ConfInstall, "new"),
     [FullTree(ConfCorrupt, "new") EXCEPT !.dirs = {"default"}, !.files = {APP_CONF}],
     [FullTree(ConfLauncher, "new") EXCEPT !.files = {APP_CONF}]}

TargetTrees == {NoTree, FullTree(ConfOld, "old")}

\* what the operator may type at the version prompt
TypedVersions == {<<>>, V200, <<" ">> \o V200, V10}

NoPre == [tgt |-> NoTree, src |-> NoTree, dir |-> {}]

Init ==
    /\ src \in {f \in [Apps -> SourceTrees] :
                 f["appA"].conf = ConfLauncher /\ f["appB"].conf # ConfLauncher}
    /\ tgt \in [Apps -> TargetTrees]
    /\ backups = {}
    /\ now = 0
    /\ pc = "select"
    /\ plan = <<>>
    /\ idx = 1
    /\ stage = "NONE"
    /\ new_version = <<>>
    /\ deployed_apps = <<>>
    /\ app_versions = <<>>
    /\ exit_status = -1
    /\ last_error = ""
    /\ pre = NoPre
    /\ made = {}
    /\ trail = <<>>
    /\ rets = <<>>
    /\ hist = <<>>
    /\ fin = <<>>
    /\ fout = <<>>

(***************************************************************************)
(* run(): selection, confirmation                                          *)
(***************************************************************************)
\* select_apps_interactive leaves through sys.exit(1) when there is no unit,
\* no input or no valid word
SelectApps ==
    /\ pc = "select"
    /\ \E selection \in SeqsUpTo(Tokens, MaxSel) :
         LET available_apps == list_available_apps(src)
             selected_apps == select_apps_interactive(available_apps, selection)
         IN  IF available_apps = <<>> \/ selection = <<>> \/ selected_apps = <<>>
             THEN /\ pc' = "done"
                  /\ exit_status' = 1
                  /\ plan' = plan
             ELSE /\ pc' = "confirm"
                  /\ exit_status' = exit_status
                  /\ plan' = selected_apps
    /\ UNCHANGED <<src, tgt, backups, now, idx, stage, new_version,
                   deployed_apps, app_versions, last_error, pre, made, trail, rets,
                   hist, fin, fout>>

\* "Proceed with deployment? (y/n)": anything but y or yes returns from run
ConfirmProceed ==
    /\ pc = "confirm"
    /\ \E proceed \in BOOLEAN :
         IF proceed
         THEN pc' = "loop" /\ exit_status' = exit_status
         ELSE pc' = "done" /\ exit_status' = 0
    /\ UNCHANGED <<src, tgt, backups, now, plan, idx, stage, new_version,
                   deployed_apps, app_versions, last_error, pre, made, trail, rets,
                   hist, fin, fout>>

(***************************************************************************)
(* The loop of run() and the steps of deploy_app for the unit plan[idx]    *)
(***************************************************************************)
app == plan[idx]

InUnit(st) == pc = "loop" /\ idx <= Len(plan) /\ stage = st

\* the clock after the operator has answered a prompt: time does not go back
ClockReadings == {t \in now..(now + 1) : t <= MaxTime}

\* get_current_version and prompt_for_version; time passes at the prompt
BeginUnit ==
    /\ InUnit("NONE")
    /\ now' \in ClockReadings
    /\ \E typed \in TypedVersions :
         new_version' = prompt_for_version(typed, get_current_version(src[app]))
    /\ stage' = "PENDING"
    /\ trail' = <<"PENDING">>
    /\ rets' = <<>>
    /\ pre' = [tgt |-> tgt[app], src |-> src[app], dir |-> backups]
    /\ made' = {}
    /\ UNCHANGED <<src, tgt, backups, pc, plan, idx, deployed_apps,
                   app_versions, exit_status, last_error, hist, fin, fout>>

ValidateSource ==
    /\ InUnit("PENDING")
    /\ \E r \in {validate_app_structure(src[app])} :
           /\ stage' = advance(stage, r.ok)
           /\ rets' = Append(rets, r.ok)
           /\ last_error' = IF r.ok THEN last_error ELSE r.missing
    /\ trail' = Append(trail, stage')
    /\ UNCHANGED <<src, tgt, backups, now, pc, plan, idx, new_version,
                   deployed_apps, app_versions, exit_status, pre, made, hist,
                   fin, fout>>

BackupExisting ==
    /\ InUnit("VALIDATED")
    /\ \E io \in BackupOutcomes :
         \E r \in {backup_existing_app(app, tgt[app], backups, now, io)} :
             /\ backups' = r.dir
             /\ made' = made \cup r.wrote
             /\ stage' = advance(stage, r.ok)
             /\ rets' = Append(rets, r.ok)
    /\ trail' = Append(trail, stage')
    /\ UNCHANGED <<src, tgt, now, pc, plan, idx, new_version, deployed_apps,
                   app_versions, exit_status, last_error, pre, hist, fin, fout>>

UpdateVersion ==
    /\ InUnit("BACKED_UP")
    /\ \E io \in WriteOutcomes :
         \E r \in {update_app_version(src[app], new_version, build_stamp(now), io)} :
             /\ src' = [src EXCEPT ![app].conf = r.conf]
             /\ stage' = advance(stage, r.ok)
             /\ rets' = Append(rets, r.ok)
    /\ trail' = Append(trail, stage')
    /\ UNCHANGED <<tgt, backups, now, pc, plan, idx, new_version,
                   deployed_apps, app_versions, exit_status, last_error, pre,
                   made, hist, fin, fout>>

ReplaceTarget ==
    /\ InUnit("METADATA_UPDATED")
    /\ \E kind \in ReplaceKinds :
         /\ kind = "rmtree_fails" => tgt[app].exists
         /\ \E left \in ReplaceLeft(src[app], tgt[app], kind) :
              \E r \in {replace_app(src[app], tgt[app], [kind |-> kind, left |-> left])} :
                  /\ tgt' = [tgt EXCEPT ![app] = r.tree]
                  /\ stage' = advance(stage, r.ok)
                  /\ rets' = Append(rets, r.ok)
    /\ trail' = Append(trail, stage')
    /\ UNCHANGED <<src, backups, now, pc, plan, idx, new_version,
                   deployed_apps, app_versions, exit_status, last_error, pre,
                   made, hist, fin, fout>>

\* app_versions.append(new_version): the version run() records for a unit,
\* given the version read at the top of the loop body and the one resolved
recorded_version_current(current_version, resolved) == current_version

recorded_version(current_version, resolved) == resolved

\* validate_deployment and the two appends of run()
VerifyDeployment ==
    /\ InUnit("REPLACED")
    /\ \E ok \in {validate_deployment(tgt[app])} :
           /\ stage' = advance(stage, ok)
           /\ rets' = Append(rets, ok)
           /\ deployed_apps' = IF ok THEN Append(deployed_apps, app) ELSE deployed_apps
           /\ app_versions' =
                IF ok
                THEN Append(app_versions,
                            recorded_version(get_current_version(pre.src), new_version))
                ELSE app_versions
           /\ last_error' = IF ok THEN last_error
                            ELSE IF ~tgt[app].exists THEN "target"
                            ELSE FirstAbsent(required_files, tgt[app])
    /\ trail' = Append(trail, stage')
    /\ UNCHANGED <<src, tgt, backups, now, pc, plan, idx, new_version,
                   exit_status, pre, made, hist, fin, fout>>

\* the for statement of run(): the position after the unit at position i,
\* whatever its outcome
next_unit_break_on_failure(i, outcome, n) ==
    IF outcome = "FAILED" THEN n + 1 ELSE i + 1

next_unit(i, outcome, n) == i + 1

\* the end of the loop body: on to the next unit of the plan
EndUnit ==
    /\ pc = "loop" /\ idx <= Len(plan)
    /\ stage \in {"VERIFIED", "FAILED"}
    /\ hist' = Append(hist, [app |-> app, outcome |-> stage,
                             version |-> new_version])
    /\ idx' = next_unit(idx, stage, Len(plan))
    /\ stage' = "NONE"
    /\ new_version' = <<>>
    /\ last_error' = ""
    /\ pre' = NoPre
    /\ made' = {}
    /\ trail' = <<>>
    /\ rets' = <<>>
    /\ UNCHANGED <<src, tgt, backups, now, pc, plan, deployed_apps,
                   app_versions, exit_status, fin, fout>>

\* the status a session that went through the whole plan ends with: run()
\* returns and main() falls off its end
main_exit_status(results) == 0

\* after the loop: restart, git and summary are outside the model
Finish ==
    /\ pc = "loop" /\ idx > Len(plan) /\ stage = "NONE"
    /\ pc' = "done"
    /\ exit_status' = main_exit_status(hist)
    /\ UNCHANGED <<src, tgt, backups, now, plan, idx, stage, new_version,
                   deployed_apps, app_versions, last_error, pre, made, trail, rets,
                   hist, fin, fout>>

Next ==
    \/ SelectApps
    \/ ConfirmProceed
    \/ BeginUnit
    \/ ValidateSource
    \/ BackupExisting
    \/ UpdateVersion
    \/ ReplaceTarget
    \/ VerifyDeployment
    \/ EndUnit
    \/ Finish

Spec == Init /\ [][Next]_vars

\* the sessions the progress property is checked on: appA valid and already
\* deployed, appB without its metadata directory and not deployed
InitFair ==
    /\ Init
    /\ src["appA"] = FullTree(ConfLauncher, "new")
    /\ src["appB"].conf = ConfCorrupt
    /\ tgt["appA"].exists
    /\ ~tgt["appB"].exists

\* the session is one sequential process: it keeps running while it has a step
FairSpec == InitFair /\ [][Next]_vars /\ WF_vars(Next)

(***************************************************************************)
(* Properties of the pipeline                                              *)
(***************************************************************************)
\* a unit of the plan is in its pipeline
InPipeline == pc = "loop" /\ idx <= Len(plan) /\ stage # "NONE"

\* stage st is on the current unit's trail
Passed(st) == \E i \in 1..Len(trail) : trail[i] = st

\* the complete archives of the pre-deployment target tree that the current
\* unit's pipeline wrote and that are in the backup directory
GoodArchives ==
    {a \in made \cap backups : a.complete /\ a.app = app /\ a.tree = pre.tgt}

\* C1: the target of a unit is changed only if no target existed when the
\* backup step ran or the backup step wrote a complete archive of it; once
\* the unit is REPLACED, this run wrote an archive of the pre-deployment tree
\* exactly when the target existed before the run.
C1_BackupBeforeReplace ==
    InPipeline =>
        /\ tgt[app] # pre.tgt => (~pre.tgt.exists \/ GoodArchives # {})
        /\ Passed("REPLACED") =>
             /\ GoodArchives # {} <=> pre.tgt.exists
             /\ made # {} <=> pre.tgt.exists

C1_Witness ==
    /\ InPipeline /\ stage = "REPLACED"
    /\ pre.tgt.exists /\ GoodArchives # {} /\ tgt[app] # pre.tgt

\* the trail is an initial part of the stage order, possibly ended by FAILED
TrailInOrder ==
    /\ Len(trail) >= 1 /\ Len(trail) <= Len(Stages)
    /\ stage = trail[Len(trail)]
    /\ \A i \in 1..(Len(trail) - 1) : trail[i] = Stages[i]
    /\ trail[Len(trail)] \in {Stages[Len(trail)], "FAILED"}
    /\ trail[1] = "PENDING"

\* what the source descriptor holds once the version has been stamped
StampedConf ==
    config_write(updated_config(config_read(pre.src.conf), new_version,
                                build_stamp(now)))

\* C2: the stages are passed in the order PENDING, VALIDATED, BACKED_UP,
\* METADATA_UPDATED, REPLACED, VERIFIED with none skipped; each step has acted
\* only after the step before it succeeded, and a unit that FAILED changes
\* nothing any more.
C2_StageOrder ==
    /\ [](InPipeline =>
            /\ TrailInOrder
            /\ Len(rets) = Len(trail) - 1
            /\ \A i \in 1..Len(rets) : rets[i] <=> trail[i + 1] # "FAILED"
            /\ Passed("VALIDATED") => validate_app_structure(pre.src).ok
            /\ backups # pre.dir => Passed("VALIDATED")
            /\ Passed("BACKED_UP") => (pre.tgt.exists => GoodArchives # {})
            /\ src[app] # pre.src => Passed("BACKED_UP")
            /\ Passed("METADATA_UPDATED") => src[app].conf = StampedConf
            /\ tgt[app] # pre.tgt => Passed("METADATA_UPDATED")
            /\ Passed("REPLACED") => tgt[app] = src[app]
            /\ Passed("VERIFIED") => validate_deployment(tgt[app]))
    /\ [][stage = "FAILED" => /\ src' = src /\ tgt' = tgt /\ backups' = backups
                              /\ deployed_apps' = deployed_apps
                              /\ stage' \in {"FAILED", "NONE"}]_vars

C2_Witness ==
    /\ InPipeline /\ stage = "VERIFIED"
    /\ trail = Stages /\ pre.tgt.exists /\ tgt[app] # pre.tgt

\* the consistent trees: a file exists only in a directory that exists
AllTrees ==
    {t \in [exists : {TRUE}, dirs : SUBSET {"default", "metadata"},
            files : SUBSET {APP_CONF, DEFAULT_META}, conf : {ConfLauncher},
            payload : {"new"}] : \A f \in t.files : ParentOf(f) \in t.dirs}

\* the four required paths in the order they are to be checked
CheckOrder == <<"default", "metadata", APP_CONF, DEFAULT_META>>

MissingPaths(tree) == {i \in 1..Len(CheckOrder) : CheckOrder[i] \notin Paths(tree)}

\* C3: a tree that lacks one of the four required paths is rejected with the
\* first missing path of the check order, and the pipeline of a unit whose
\* source is such a tree ends at validation: no archive, no write to the
\* source, no change of the target.
C3_MissingPathStopsPipeline ==
    /\ pc = "select" =>
         \A t \in AllTrees \cup {NoTree} :
            IF MissingPaths(t) = {} THEN validate_app_structure(t).ok
            ELSE /\ ~validate_app_structure(t).ok
                 /\ validate_app_structure(t).missing = CheckOrder[Min(MissingPaths(t))]
    /\ InPipeline /\ stage # "PENDING" /\ MissingPaths(pre.src) # {} =>
         /\ trail = <<"PENDING", "FAILED">>
         /\ last_error = CheckOrder[Min(MissingPaths(pre.src))]
         /\ made = {} /\ backups = pre.dir
         /\ src[app] = pre.src /\ tgt[app] = pre.tgt

C3_Witness ==
    /\ InPipeline /\ stage = "FAILED" /\ last_error = "metadata"
    /\ MissingPaths(src[app]) = {2, 4} /\ tgt[app].exists

\* C4: when the backup step fails for a unit whose target exists, the target
\* tree and the source tree of the unit stay as they were when the pipeline
\* started.
C4_BackupFailureLeavesUnitUntouched ==
    InPipeline /\ Len(rets) >= 2 /\ ~rets[2] /\ pre.tgt.exists =>
        tgt[app] = pre.tgt /\ src[app] = pre.src

C4_Witness ==
    /\ InPipeline /\ stage = "FAILED" /\ rets = <<TRUE, FALSE>>
    /\ pre.tgt.exists /\ tgt[app] = pre.tgt /\ made # {}

\* the units whose pipeline has ended, in the order they ended
Attempted == [i \in 1..Len(hist) |-> hist[i].app]

\* C5: once the loop has started, the session goes on until every unit of the
\* plan has been attempted, in plan order, whatever the outcomes were.
C5_EveryUnitAttempted ==
    (pc = "loop") ~> (pc = "done" /\ Attempted = plan)

C5_Witness ==
    /\ pc = "done" /\ Len(hist) = 2
    /\ hist[1].outcome = "FAILED" /\ hist[2].outcome = "VERIFIED"
    /\ hist[1].app # hist[2].app

\* C6: a session in which a unit FAILED ends with a non-zero exit status,
\* produced after every unit of the plan was attempted.
C6_ExitStatusReflectsFailure ==
    pc = "done" /\ (\E i \in 1..Len(hist) : hist[i].outcome = "FAILED") =>
        exit_status # 0 /\ Attempted = plan

\* C10: when the version write fails, the source descriptor holds what it
\* held when the pipeline started.
C10_DescriptorAllOrNothing ==
    InPipeline /\ Len(rets) >= 3 /\ ~rets[3] =>
        stage = "FAILED" /\ src[app].conf = pre.src.conf

(***************************************************************************)
(* The text functions on their own: each specification draws an input,     *)
(* applies the function and keeps the result; the pipeline stands still.   *)
(***************************************************************************)
IdlePipeline ==
    /\ src = [a \in Apps |-> NoTree]
    /\ tgt = [a \in Apps |-> NoTree]
    /\ backups = {}
    /\ now = 0
    /\ plan = <<>>
    /\ idx = 1
    /\ stage = "NONE"
    /\ new_version = <<>>
    /\ deployed_apps = <<>>
    /\ app_versions = <<>>
    /\ exit_status = -1
    /\ last_error = ""
    /\ pre = NoPre
    /\ made = {}
    /\ trail = <<>>
    /\ rets = <<>>
    /\ hist = <<>>

\* prompt_for_version on every typed text and two current versions
InitVersion ==
    /\ IdlePipeline
    /\ pc = "fn_ready"
    /\ fin \in [typed : SeqsUpTo(VersionChars, MaxVerLen), current : {V100, V10}]
    /\ fout = <<>>

ResolveVersion ==
    /\ pc = "fn_ready"
    /\ pc' = "fn_done"
    /\ fout' = prompt_for_version(fin.typed, fin.current)
    /\ UNCHANGED <<fin, pvars>>

NextVersion == ResolveVersion

SpecVersion == InitVersion /\ [][NextVersion]_vars

\* C7, as stated: the typed text is returned when it matches the pattern,
\* and every other typed text gives the current version.
C7_TypedReturnedOnlyIfItMatches ==
    pc = "fn_done" =>
        fout = IF MatchesVersionPattern(fin.typed) THEN fin.typed ELSE fin.current

\* C7, amended: the typed text without the white space around it is returned
\* when that stripped text matches the pattern, and every other typed text
\* gives the current version.
C7_StrippedReturnedOnlyIfItMatches ==
    pc = "fn_done" =>
        /\ MatchesVersionPattern(Strip(fin.typed)) => fout = Strip(fin.typed)
        /\ ~MatchesVersionPattern(Strip(fin.typed)) => fout = fin.current
        /\ fout # fin.current => MatchesVersionPattern(fout)

C7_Witness ==
    /\ pc = "fn_done"
    /\ fin.typed = <<" ">> \o V111
    /\ fout = V111 /\ fin.current = V100

\* the label rewrite applied once and then again to its own result, on
\* every label config.get can return (no white space around it)
InitLabel ==
    /\ IdlePipeline
    /\ pc = "fn_ready"
    /\ fin \in [label : {l \in SeqsUpTo(LabelChars, MaxLabelLen) : Strip(l) = l},
                 version : {V111, V200}]
    /\ fout = <<>>

RewriteOnce ==
    /\ pc = "fn_ready"
    /\ pc' = "fn_once"
    /\ fout' = <<rewrite_label(fin.label, fin.version)>>
    /\ UNCHANGED <<fin, pvars>>

RewriteAgain ==
    /\ pc = "fn_once"
    /\ pc' = "fn_twice"
    /\ fout' = Append(fout, rewrite_label(fout[1], fin.version))
    /\ UNCHANGED <<fin, pvars>>

NextLabel == RewriteOnce \/ RewriteAgain

SpecLabel == InitLabel /\ [][NextLabel]_vars

\* C8: the label rewrite applied twice with the same version gives the label
\* it gives when applied once.
C8_LabelRewriteIdempotent ==
    pc = "fn_twice" => fout[2] = fout[1]

\* descriptors the round trip starts from
ConfBoth ==
    [state |-> "ok",
     data |-> [launcher |-> [version |-> <<"0", ".", "9", ".", "0">>],
               install |-> [version |-> <<"0", ".", "8", ".", "0">>,
                            build |-> <<"7">>]]]

ConfEmpty == [state |-> "ok", data |-> EmptyMap]

Descriptors == {ConfLauncher, ConfInstall, ConfBoth, ConfEmpty, ConfCorrupt}

\* update_app_version followed by get_current_version
InitRoundTrip ==
    /\ IdlePipeline
    /\ pc = "fn_ready"
    /\ fin \in [conf : Descriptors, version : SeqsUpTo(VersionChars, MaxVerLen)]
    /\ fout = <<>>

WriteVersion ==
    /\ pc = "fn_ready"
    /\ pc' = "fn_written"
    /\ \E io \in WriteOutcomes :
         fout' = update_app_version(FullTree(fin.conf, "new"), fin.version,
                                    build_stamp(now), io)
    /\ UNCHANGED <<fin, pvars>>

ReadVersion ==
    /\ pc = "fn_written"
    /\ pc' = "fn_read"
    /\ fout' = [ok |-> fout.ok, conf |-> fout.conf,
                read |-> get_current_version(FullTree(fout.conf, "new"))]
    /\ UNCHANGED <<fin, pvars>>

NextRoundTrip == WriteVersion \/ ReadVersion

SpecRoundTrip == InitRoundTrip /\ [][NextRoundTrip]_vars

\* C9, as stated: after a successful update_app_version(unit, v),
\* get_current_version(unit) is v, for every text v.
C9_ReadAfterWriteAnyText ==
    pc = "fn_read" /\ fout.ok => fout.read = fin.version

\* a text that neither starts nor ends with white space or a quote character
Bare(v) == Strip(v) = v /\ StripChars(v, {"\""}) = v

\* C9, amended: after a successful update_app_version(unit, v),
\* get_current_version(unit) is v, for every text v that neither starts nor
\* ends with white space or a quote character, whatever version keys the
\* descriptor held before.
C9_ReadAfterWriteBareText ==
    pc = "fn_read" /\ fout.ok /\ Bare(fin.version) => fout.read = fin.version

C9_Witness ==
    /\ pc = "fn_read" /\ fout.ok
    /\ fin.conf = ConfBoth /\ fin.version = V111 /\ fout.read = V111

(***************************************************************************)
(* Properties of the plan, the backup directory and the session lists      *)
(***************************************************************************)
\* C11: in the plan that app selection produces, each unit appears at most
\* once, whatever was typed at the selection prompt.
C11_PlanUnitsDistinct ==
    \A i, j \in 1..Len(plan) : plan[i] = plan[j] => i = j

\* the archives written whole; what a failed write left is not counted
Complete(dir) == {a \in dir : a.complete}

\* a backup event: the backup step of a unit whose target exists succeeds
BackupEvent == InUnit("VALIDATED") /\ tgt[app].exists /\ stage' = "BACKED_UP"

\* C12: every backup event adds one archive to the backup directory and no
\* step of the session overwrites or changes an archive that is there, so
\* that the archives are as many as the backup events and the archive of a
\* first deployment is still there after a second one of the same unit.
C12_OneArchivePerBackupEvent ==
    [][/\ Complete(backups) \subseteq backups'
       /\ BackupEvent =>
            Cardinality(Complete(backups')) = Cardinality(Complete(backups)) + 1
       /\ ~BackupEvent => Complete(backups') = Complete(backups)]_vars

\* the unit in its pipeline was deployed and verified at the plan position
\* before, with the version it has now, and has been copied again; pre.tgt
\* is then the state the first deployment left
Redeployed ==
    /\ InPipeline /\ idx > 1 /\ plan[idx - 1] = app
    /\ hist[idx - 1].outcome = "VERIFIED" /\ hist[idx - 1].version = new_version
    /\ Passed("REPLACED")

\* C13: the second of two deployments in succession of a unit with an
\* unchanged version leaves the deployed tree, descriptor included, as the
\* first left it.
C13_RedeployLeavesSameTarget ==
    Redeployed => tgt[app] = pre.tgt

\* C18: when a unit is VERIFIED, the deployed descriptor is the source
\* descriptor, its launcher.version is the version resolved for the unit
\* (also as get_current_version reads it back), and that version is the one
\* the session lists record for the unit.
C18_DeployedDescriptorCarriesVersion ==
    InPipeline /\ stage = "VERIFIED" =>
        /\ tgt[app].conf = src[app].conf
        /\ has_option(tgt[app].conf.data, "launcher", "version")
        /\ tgt[app].conf.data["launcher"]["version"] = new_version
        /\ Bare(new_version) => get_current_version(tgt[app]) = new_version
        /\ Len(app_versions) >= 1 /\ Len(deployed_apps) >= 1
        /\ app_versions[Len(app_versions)] = new_version
        /\ deployed_apps[Len(deployed_apps)] = app

C18_Witness ==
    /\ InPipeline /\ stage = "VERIFIED"
    /\ new_version = V200 /\ get_current_version(pre.src) = V100
    /\ pre.tgt.exists
    /\ tgt[app].conf.data["launcher"]["version"] = V200
    /\ app_versions[Len(app_versions)] = V200

Verified(h) == h.outcome = "VERIFIED"

\* the plan positions processed so far that ended VERIFIED, the one in its
\* pipeline included
VerifiedSoFar ==
    SelectSeq(hist, Verified)
    \o (IF InPipeline /\ stage = "VERIFIED"
        THEN <<[app |-> app, outcome |-> stage, version |-> new_version]>>
        ELSE <<>>)

NoKey == <<>>

Key(v) == <<v>>

\* the descriptor with the given version keys; a section without its
\* version key holds another key
DescriptorWith(launcher, install) ==
    [state |-> "ok",
     data |-> [s \in {"launcher", "install"} |->
                 IF s = "launcher"
                 THEN IF launcher = NoKey THEN [label |-> <<"F">>]
                      ELSE [version |-> launcher[1]]
                 ELSE IF install = NoKey THEN [build |-> <<"7">>]
                      ELSE [version |-> install[1]]]]

\* the unit trees get_current_version is read on: no descriptor file, a
\* file that cannot be parsed, a descriptor without sections, and the
\* descriptors with every text in launcher.version
ReadTrees ==
    {[FullTree(NoFile, "new") EXCEPT !.files = {DEFAULT_META}],
     FullTree(ConfCorrupt, "new"), FullTree(ConfEmpty, "new")}
    \cup {FullTree(DescriptorWith(l, i), "new") :
            l \in {NoKey} \cup {Key(v) : v \in SeqsUpTo(VersionChars, MaxVerLen)},
            i \in {NoKey, Key(V200), Key(<<"\"", "1", ".", "0", "\"">>)}}

InitCurrent ==
    /\ IdlePipeline
    /\ pc = "fn_ready"
    /\ fin \in ReadTrees
    /\ fout = <<>>

ReadCurrent ==
    /\ pc = "fn_ready"
    /\ pc' = "fn_done"
    /\ fout' = get_current_version(fin)
    /\ UNCHANGED <<fin, pvars>>

NextCurrent == ReadCurrent

SpecCurrent == InitCurrent /\ [][NextCurrent]_vars

\* the text of the version key the claim reads: launcher's if there is one,
\* otherwise install's, without the white space the parser drops and
\* without the quote characters around it; NoKey if neither section has it
StatedVersion(tree) ==
    IF APP_CONF \notin tree.files \/ tree.conf.state # "ok" THEN NoKey
    ELSE IF has_option(tree.conf.data, "launcher", "version")
    THEN Key(StripChars(Strip(tree.conf.data["launcher"]["version"]), {"\""}))
    ELSE IF has_option(tree.conf.data, "install", "version")
    THEN Key(StripChars(Strip(tree.conf.data["install"]["version"]), {"\""}))
    ELSE NoKey

\* a well-formed version value: digits, dot, digits, dot, digits
WellFormed(v) == IsTripleAt(v, 1, Len(v))

\* C14: get_current_version returns launcher's version, otherwise install's,
\* without the quote characters around it, and returns 1.0.0 when the
\* descriptor is missing or unreadable, when neither section has the key
\* and when the value is not a well-formed version.
C14_CurrentVersionOrDefault ==
    pc = "fn_done" =>
        fout = IF StatedVersion(fin) = NoKey THEN V100
               ELSE IF WellFormed(StatedVersion(fin)[1]) THEN StatedVersion(fin)[1]
               ELSE V100

(***************************************************************************)
(* The two validators on the same directory tree                           *)
(***************************************************************************)
\* the directory trees: a file exists only in a directory that exists, and
\* the descriptor is what default/app.conf holds
DirectoryTrees ==
    {NoTree}
    \cup {t \in [exists : {TRUE}, dirs : SUBSET {"default", "metadata"},
                 files : SUBSET {APP_CONF, DEFAULT_META},
                 conf : Descriptors \cup {NoFile}, payload : {"new", "old"}] :
            /\ \A f \in t.files : ParentOf(f) \in t.dirs
            /\ t.conf = NoFile <=> APP_CONF \notin t.files}

InitValidators ==
    /\ IdlePipeline
    /\ pc = "fn_ready"
    /\ fin \in DirectoryTrees
    /\ fout = EmptyMap

\* validate_app_structure with the tree as a unit of the source root
ValidateAsSource ==
    /\ pc = "fn_ready"
    /\ "source" \notin DOMAIN fout
    /\ fout' = [k \in DOMAIN fout \cup {"source"} |->
                  IF k = "source" THEN validate_app_structure(fin).ok ELSE fout[k]]
    /\ UNCHANGED <<pc, fin, pvars>>

\* validate_deployment with the tree as the target directory
ValidateAsDeployment ==
    /\ pc = "fn_ready"
    /\ "deployment" \notin DOMAIN fout
    /\ fout' = [k \in DOMAIN fout \cup {"deployment"} |->
                  IF k = "deployment" THEN validate_deployment(fin) ELSE fout[k]]
    /\ UNCHANGED <<pc, fin, pvars>>

NextValidators == ValidateAsSource \/ ValidateAsDeployment

SpecValidators == InitValidators /\ [][NextValidators]_vars

\* C15: validate_deployment accepts a directory tree exactly when
\* validate_app_structure accepts it, which is when default, metadata,
\* default/app.conf and metadata/default.meta are all present.
C15_SamePredicate ==
    pc = "fn_ready" /\ DOMAIN fout = {"source", "deployment"} =>
        /\ fout["deployment"] <=> fout["source"]
        /\ fout["source"] <=> MissingPaths(fin) = {}

C15_Witness ==
    /\ pc = "fn_ready" /\ DOMAIN fout = {"source", "deployment"}
    /\ fin.dirs = {"default", "metadata"} /\ fin.files = {APP_CONF}
    /\ ~fout["deployment"] /\ ~fout["source"]

(***************************************************************************)
(* Permissions: the copy and _set_app_permissions of deploy_app.  A unit   *)
(* is seen as the mode of each of its paths; "." is the unit's root        *)
(* directory.                                                              *)
(***************************************************************************)
ROOT == "."

PermPaths == {ROOT, "bin", "default", "bin/run.sh", APP_CONF}

\* the paths that are directories
PermDirs == {ROOT, "bin", "default"}

\* file_path.endswith(('.py', '.sh'))
IsScript(path) == path \in {"bin/run.sh"}

\* the modes a source path can have, by kind
ModesOf(path) == IF path \in PermDirs THEN {"700", "755"} ELSE {"600", "644", "755"}

\* OSConfig._detect_os
OsTypes == {"Linux", "macOS", "Windows", "Unknown"}

\* the chmod calls of the os.walk loop in the order they are made, for the
\* two orders in which the root directory can list its sub-directories: the
\* sub-directories of a directory, then its files, then the same below each
\* sub-directory
WalkOrders ==
    {<<"bin", "default", "bin/run.sh", APP_CONF>>,
     <<"default", "bin", APP_CONF, "bin/run.sh">>}

\* the mode the loop gives a path it reaches
chmod_mode(path) ==
    IF path \in PermDirs THEN "755"
    ELSE IF IsScript(path) THEN "755" ELSE "644"

\* shutil.copytree: every path of the copy has the mode of its source
copytree_modes(source_modes) == [p \in PermPaths |-> source_modes[p]]

\* _set_app_permissions: the chmod calls of walk are made in order; call
\* number fail_at raises (none if fail_at is past the last), the exception
\* is caught and logged as a warning
set_app_permissions(modes, walk, fail_at) ==
    [modes |-> [p \in PermPaths |->
                  IF \E k \in 1..Len(walk) : walk[k] = p /\ k < fail_at
                  THEN chmod_mode(p) ELSE modes[p]],
     warned |-> fail_at <= Len(walk)]

\* the try block of deploy_app after rmtree: copy, then permissions unless
\* the host is Windows; the value returned and the modes left at the target
deploy_permissions(source_modes, os_type, walk, fail_at) ==
    IF os_type # "Windows"
    THEN The({[ok |-> TRUE, modes |-> r.modes, warned |-> r.warned] :
                r \in {set_app_permissions(copytree_modes(source_modes),
                                           walk, fail_at)}})
    ELSE [ok |-> TRUE, modes |-> copytree_modes(source_modes), warned |-> FALSE]

InitPermissions ==
    /\ IdlePipeline
    /\ pc = "fn_ready"
    /\ fin \in [modes : {m \in [PermPaths -> {"600", "644", "700", "755"}] :
                           \A p \in PermPaths : m[p] \in ModesOf(p)},
                 os_type : OsTypes]
    /\ fout = <<>>

DeployPermissions ==
    /\ pc = "fn_ready"
    /\ pc' = "fn_done"
    /\ \E walk \in WalkOrders : \E fail_at \in 1..(Len(walk) + 1) :
         fout' = deploy_permissions(fin.modes, fin.os_type, walk, fail_at)
    /\ UNCHANGED <<fin, pvars>>

NextPermissions == DeployPermissions

SpecPermissions == InitPermissions /\ [][NextPermissions]_vars

\* C16: on a host that is not Windows, after a replace stage in which no
\* chmod failed, every directory of the deployed unit, its root directory
\* included, has mode 755, every script 755 and every other file 644; a
\* chmod that fails gives a warning and the stage still succeeds.
C16_ModesNormalized ==
    pc = "fn_done" /\ fin.os_type # "Windows" =>
        /\ fout.ok
        /\ ~fout.warned =>
             \A p \in PermPaths :
                fout.modes[p] = IF p \in PermDirs \/ IsScript(p) THEN "755" ELSE "644"

(***************************************************************************)
(* update_app_version on its own: what it leaves of the descriptor         *)
(***************************************************************************)
\* the part of m on the keys of K
Restrict(m, K) == [k \in K |-> m[k]]

\* descriptors with and without a label, with a further launcher option in
\* lower or mixed case or none, with and without an install section and a
\* ui section
FrameDescriptors ==
    {[state |-> "ok",
      data |-> Restrict([launcher |-> Restrict([version |-> V100,
                                                label |-> <<"F">>,
                                                author |-> <<"m", "e">>,
                                                Author |-> <<"m", "e">>],
                                               {"version"} \cup L \cup A),
                         install |-> [version |-> V100, build |-> <<"7">>],
                         ui |-> [is_visible |-> <<" ", "1">>]],
                        {"launcher"} \cup S)] :
       L \in {{}, {"label"}}, A \in {{}, {"author"}, {"Author"}},
       S \in SUBSET {"install", "ui"}}

InitFrame ==
    /\ IdlePipeline
    /\ pc = "fn_ready"
    /\ fin \in [conf : FrameDescriptors, version : {V111, V200}]
    /\ fout = <<>>

UpdateDescriptor ==
    /\ pc = "fn_ready"
    /\ pc' = "fn_done"
    /\ \E io \in WriteOutcomes : \E stamp \in {build_stamp(t) : t \in 0..MaxTime} :
         fout' = update_app_version(FullTree(fin.conf, "new"), fin.version,
                                    stamp, io)
    /\ UNCHANGED <<fin, pvars>>

NextFrame == UpdateDescriptor

SpecFrame == InitFrame /\ [][NextFrame]_vars

\* the keys update_app_version may set
Stamped == {<<"launcher", "version">>, <<"install", "build">>}

\* C17: after a successful update_app_version, every section and every
\* option the descriptor held is still there with its value, but for
\* launcher.version, install.build and launcher.label; nothing else has
\* appeared, and launcher.label has not appeared if it was absent.
C17_UpdateFrame ==
    pc = "fn_done" /\ fout.ok =>
        /\ \A s \in DOMAIN fin.conf.data : \A k \in DOMAIN fin.conf.data[s] :
             /\ has_option(fout.conf.data, s, k)
             /\ <<s, k>> \notin Stamped \cup {<<"launcher", "label">>} =>
                  Strip(fout.conf.data[s][k]) = Strip(fin.conf.data[s][k])
        /\ \A s \in DOMAIN fout.conf.data : \A k \in DOMAIN fout.conf.data[s] :
             <<s, k>> \notin Stamped => has_option(fin.conf.data, s, k)
        /\ \A s \in DOMAIN fout.conf.data :
             s \in DOMAIN fin.conf.data \cup {"launcher", "install"}

====
